---- MODULE Spec2Model ----
\* A model of deploy/deploy.py, the ListPull deployment script: preflight
\* checks, Docker installation, configuration collection, .env writing,
\* compose build/start, health polling and the summary.
\*
\* Strings that the script inspects (configuration values, input lines, the
\* probe's output) are sequences of one-character strings, so that strip(),
\* len(), the "in" tests and the f-string formatting are computed as the code
\* computes them.  Keys, prompts and command names are opaque strings.
\*
\* An external command is a nondeterministic return code (0 or 1); every
\* binary the script calls is taken to exist.  time.time() is counted in
\* whole seconds and moves only inside wait_for_healthy, where it matters.
\*
\* Three specifications: Spec is main() from start to exit; ConfigSpec is
\* prompt_config and write_env_file over inputs for every field; HealthSpec
\* is wait_for_healthy for several timeouts, with the fairness of a running
\* thread.
EXTENDS Integers, Sequences, FiniteSets, TLC

VARIABLES
    pc,              \* position of the single thread in main()
    non_interactive, \* args.non_interactive
    environ,         \* os.environ restricted to the configuration keys (a dict)
    stdin,           \* the lines the user will type, in order
    consumed,        \* how many lines input() has read
    generated,       \* the value generate_jwt_secret() returned (<<>>: not called)
    config,          \* the dict prompt_config builds, in insertion order
    output,          \* what was printed: errors, warnings, notable messages
    exit_code,       \* the process's exit status (-1 while it runs)
    env_file,        \* the lines of <project>/.env
    performed,       \* the external commands and file writes done so far
    docker_found,    \* what is_docker_installed() returned ("pending" before)
    docker_list,     \* the codename written to docker.list ("" if not written)
    compose_cmd,     \* what the last get_compose_command() returned
    is_root,         \* os.geteuid() = 0
    is_debian,       \* /etc/debian_version exists
    project_files,   \* the files that exist in the project directory
    timeout,         \* wait_for_healthy's parameter
    clock,           \* time.time(), in whole seconds
    start_time,      \* wait_for_healthy's start_time
    last_probe,      \* stdout of the last health probe (<<>>: none, or timed out)
    healthy          \* what wait_for_healthy() returned ("pending" before)

vars == <<pc, non_interactive, environ, stdin, consumed, generated, config,
          output, exit_code, env_file, performed, docker_found, docker_list,
          compose_cmd, is_root, is_debian, project_files, timeout, clock,
          start_time, last_probe, healthy>>

-----------------------------------------------------------------------------
\* Bounds of the model.

\* At most this many configuration inputs (environment variables set plus
\* non-empty input lines) differ from "nothing given" in one run.
MaxCustom == 1

-----------------------------------------------------------------------------
\* Strings.

Rep(c, n) == [i \in 1..n |-> c]

IsSpace(c) == c = " "

RECURSIVE LStrip(_)
LStrip(s) ==
    IF s # <<>> /\ IsSpace(Head(s)) THEN LStrip(Tail(s)) ELSE s

RECURSIVE RStrip(_)
RStrip(s) ==
    IF s # <<>> /\ IsSpace(s[Len(s)]) THEN RStrip(SubSeq(s, 1, Len(s) - 1)) ELSE s

\* str.strip()
Strip(s) == RStrip(LStrip(s))

\* c in s
Contains(s, c) == \E i \in 1..Len(s) : s[i] = c

\* dict.get(key, default)
Get(d, key, default) == IF key \in DOMAIN d THEN d[key] ELSE default

-----------------------------------------------------------------------------
\* CONFIG_FIELDS: (key, prompt, default, required)

CONFIG_FIELDS == <<
    <<"JWT_SECRET", "JWT Secret (min 32 chars)", <<>>, TRUE>>,
    <<"VITE_STORE_NAME", "Store Name",
      <<"L", "i", "s", "t", "P", "u", "l", "l">>, FALSE>>,
    <<"VITE_STORE_EMAIL", "Store Email",
      <<"c", "o", "n", "t", "a", "c", "t", "@", "e", "x", "a", "m", "p", "l",
        "e", ".", "c", "o", "m">>, FALSE>>,
    <<"VITE_STORE_PHONE", "Store Phone",
      <<"(", "5", "5", "5", ")", " ", "1", "2", "3", "-", "4", "5", "6", "7">>,
      FALSE>>,
    <<"VITE_STORE_ADDRESS", "Store Address",
      <<"1", "2", "3", " ", "M", "a", "i", "n", " ", "S", "t", "r", "e", "e",
        "t">>, FALSE>>,
    <<"VITE_ORDER_PREFIX", "Order Prefix", <<"L", "P">>, FALSE>>,
    <<"VITE_ORDER_HOLD_DAYS", "Order Hold Days", <<"7">>, FALSE>>,
    <<"VITE_MAX_FILE_SIZE_MB", "Max File Size (MB)", <<"1">>, FALSE>>,
    <<"VITE_MAX_DECKLIST_CARDS", "Max Decklist Cards", <<"5", "0", "0">>, FALSE>>,
    <<"SMTP_HOST", "SMTP Host (optional)", <<>>, FALSE>>,
    <<"SMTP_PORT", "SMTP Port", <<"5", "8", "7">>, FALSE>>,
    <<"SMTP_USER", "SMTP Username (optional)", <<>>, FALSE>>,
    <<"SMTP_PASS", "SMTP Password (optional)", <<>>, FALSE>>,
    <<"FROM_EMAIL", "From Email (optional)", <<>>, FALSE>> >>

NumFields == Len(CONFIG_FIELDS)

FieldKey(i) == CONFIG_FIELDS[i][1]
FieldPrompt(i) == CONFIG_FIELDS[i][2]
FieldDefault(i) == CONFIG_FIELDS[i][3]
FieldRequired(i) == CONFIG_FIELDS[i][4]

Keys == {FieldKey(i) : i \in 1..NumFields}

\* The dict's items are kept in insertion order; config[key] = value either
\* replaces the value of a key already present or appends a new item.
DictSet(d, key, value) ==
    IF \E i \in 1..Len(d) : d[i].key = key
    THEN [i \in 1..Len(d) |-> IF d[i].key = key
                              THEN [key |-> key, value |-> value] ELSE d[i]]
    ELSE Append(d, [key |-> key, value |-> value])

DictKeys(d) == {d[i].key : i \in 1..Len(d)}

DictGet(d, key) == (CHOOSE i \in 1..Len(d) : d[i].key = key)

DictValue(d, key) == d[DictGet(d, key)].value

-----------------------------------------------------------------------------
\* generate_jwt_secret: secrets.token_hex(32), the hexadecimal text of 32
\* random bytes.

TokenBytes == 32

HexDigits == <<"0", "1", "2", "3", "4", "5", "6", "7", "8", "9",
               "a", "b", "c", "d", "e", "f">>

HexChars == {HexDigits[i] : i \in 1..Len(HexDigits)}

\* The two hexadecimal characters of byte number i of the text.
TokenHex(bytes) ==
    [j \in 1..(2 * Len(bytes)) |->
        LET b == bytes[(j + 1) \div 2]
        IN  IF j % 2 = 1 THEN HexDigits[(b \div 16) + 1]
                         ELSE HexDigits[(b % 16) + 1]]

\* The random byte strings the model draws from.
RandomBytes ==
    { [i \in 1..TokenBytes |-> 0],
      [i \in 1..TokenBytes |-> (37 * i) % 256] }

\* A variant that asks for 16 bytes instead of 32.
generate_jwt_secret_half(rnd) == TokenHex(SubSeq(rnd, 1, TokenBytes \div 2))

generate_jwt_secret(rnd) == TokenHex(rnd)

-----------------------------------------------------------------------------
\* prompt_config

\* The length below which an interactively typed secret is refused.
JwtMinLen == 32

\* A variant that drops the default: os.environ.get(key, "").
EnvLookup_no_default(env, key, default) == Get(env, key, <<>>)

\* os.environ.get(key, default)
EnvLookup(env, key, default) == Get(env, key, default)

\* key == "JWT_SECRET" and not value
SecretMissing(key, value) == key = "JWT_SECRET" /\ value = <<>>

\* required and not value
RequiredMissing(required, value) == required /\ value = <<>>

\* The non-interactive loop over CONFIG_FIELDS from field i on; st is the
\* function's local state [config, out, consumed, generated, exited].
RECURSIVE NonInteractiveFrom(_, _, _, _)
NonInteractiveFrom(i, st, env, rnd) ==
    IF i > NumFields THEN st
    ELSE
      LET key == FieldKey(i)
          value0 == EnvLookup(env, key, FieldDefault(i))
          gen == SecretMissing(key, value0)
          value == IF gen THEN generate_jwt_secret(rnd) ELSE value0
          st1 == IF gen
                 THEN [st EXCEPT !.generated = value,
                                 !.out = Append(@, <<"print", "Generated JWT_SECRET">>)]
                 ELSE st
      IN  IF RequiredMissing(FieldRequired(i), value)
          THEN [st1 EXCEPT !.out = Append(@, <<"error", key>>), !.exited = TRUE]
          ELSE NonInteractiveFrom(i + 1,
                   [st1 EXCEPT !.config = DictSet(@, key, value)], env, rnd)

\* A variant that is off by one: len(value) < 31.
SecretTooShort_off_by_one(value) == Len(value) < JwtMinLen - 1

\* len(value) < 32
SecretTooShort(value) == Len(value) < JwtMinLen

\* The secret an interactive run stores for the typed (stripped) value.
InteractiveSecret(value, candidate) ==
    IF value = <<>> THEN candidate
    ELSE IF SecretTooShort(value) THEN candidate
    ELSE value

\* A variant that falls back to the environment before the default.
InteractiveValue_from_env(env, key, value, default) ==
    IF value # <<>> THEN value ELSE Get(env, key, default)

\* value if value else default
InteractiveValue(env, key, value, default) == IF value # <<>> THEN value ELSE default

\* The interactive loop over CONFIG_FIELDS from field i on; each field reads
\* one line with input().
RECURSIVE InteractiveFrom(_, _, _, _, _)
InteractiveFrom(i, st, env, lines, rnd) ==
    IF i > NumFields THEN st
    ELSE
      LET key == FieldKey(i)
          value == Strip(lines[st.consumed + 1])
          st1 == [st EXCEPT !.consumed = @ + 1]
      IN  IF key = "JWT_SECRET"
          THEN LET candidate == generate_jwt_secret(rnd)
                   warned == value # <<>> /\ SecretTooShort(value)
                   st2 == [st1 EXCEPT
                             !.generated = candidate,
                             !.out = IF warned
                                     THEN Append(@, <<"warning", "JWT secret should be at least 32 characters">>)
                                     ELSE @,
                             !.config = DictSet(@, key, InteractiveSecret(value, candidate))]
               IN  InteractiveFrom(i + 1, st2, env, lines, rnd)
          ELSE IF RequiredMissing(FieldRequired(i), value)
          THEN [st1 EXCEPT !.out = Append(@, <<"error", FieldPrompt(i)>>),
                           !.exited = TRUE]
          ELSE InteractiveFrom(i + 1,
                   [st1 EXCEPT !.config =
                        DictSet(@, key, InteractiveValue(env, key, value, FieldDefault(i)))],
                   env, lines, rnd)

\* prompt_config(non_interactive) run on environment env, input lines and the
\* random bytes rnd; exited tells that it ended in sys.exit(1).
prompt_config(flag, env, lines, rnd) ==
    LET st0 == [config |-> <<>>, out |-> <<>>, consumed |-> 0,
                generated |-> <<>>, exited |-> FALSE]
    IN  IF flag THEN NonInteractiveFrom(1, st0, env, rnd)
                ELSE InteractiveFrom(1, st0, env, lines, rnd)

\* main: config = prompt_config(args.non_interactive)
PromptConfig ==
    /\ pc = "prompt_config"
    /\ \E rnd \in RandomBytes :
         LET r == prompt_config(non_interactive, environ, stdin, rnd)
         IN  /\ generated' = r.generated
             /\ consumed' = consumed + r.consumed
             /\ output' = output \o r.out
             /\ IF r.exited
                THEN /\ pc' = "exited"
                     /\ exit_code' = 1
                     /\ config' = config
                ELSE /\ pc' = "write_env_file"
                     /\ exit_code' = exit_code
                     /\ config' = r.config
    /\ UNCHANGED <<non_interactive, environ, stdin, env_file, performed,
                   docker_found, docker_list, compose_cmd, is_root, is_debian,
                   project_files, timeout, clock, start_time, last_probe, healthy>>

-----------------------------------------------------------------------------
\* write_env_file

EnvHeader == << <<"# ListPull Configuration">>,
                <<"# Generated by deploy.py">>,
                <<"# Rebuild container after changes: docker compose up -d --build">>,
                <<>> >>

\* " " in value or "(" in value
NeedsQuotes(value) == Contains(value, " ") \/ Contains(value, "(")

\* f'{key}="{value}"' or f"{key}={value}"
EnvLine(key, value) ==
    IF NeedsQuotes(value)
    THEN <<key, "=", "\"">> \o value \o <<"\"">>
    ELSE <<key, "=">> \o value

\* The lines list write_env_file joins with newlines.
EnvLines(cfg) == EnvHeader \o [i \in 1..Len(cfg) |-> EnvLine(cfg[i].key, cfg[i].value)]

\* An entry of performed: the step of the script, the command or file
\* write, and the command's return code.
Did(step, cmd, rc) == [step |-> step, cmd |-> cmd, rc |-> rc]

\* main: write_env_file(project_dir, config)
WriteEnvFile ==
    /\ pc = "write_env_file"
    /\ env_file' = EnvLines(config)
    /\ performed' = Append(performed, Did("write_env_file", "write .env", 0))
    /\ output' = Append(output, <<"success", "Configuration written">>)
    /\ pc' = "build_and_start"
    /\ UNCHANGED <<non_interactive, environ, stdin, consumed, generated, config,
                   exit_code, docker_found, docker_list, compose_cmd, is_root,
                   is_debian, project_files, timeout, clock, start_time, last_probe,
                   healthy>>

-----------------------------------------------------------------------------
\* The inputs of a run: the environment and what the user types.

\* Values drawn for environment variables and for typed lines.
SampleValues ==
    { <<>>,
      <<"a", ")">>,
      <<" ", "a", " ">>,
      <<" ", " ">>,
      Rep("x", 10),
      Rep("x", JwtMinLen - 1),
      Rep("x", JwtMinLen),
      <<" ">> \o Rep("x", JwtMinLen - 1) \o <<" ">> }

\* The subsets of S with at most k elements.
RECURSIVE KSubsets(_, _)
KSubsets(S, k) ==
    IF k = 0 THEN {{}}
    ELSE LET P == KSubsets(S, k - 1)
         IN  P \cup {p \cup {x} : p \in P, x \in S}

\* An input slot is an environment variable or the line typed for a field.
EnvSlots(keys) == {<<"env", k>> : k \in keys}
InSlots(keys) == {<<"in", k>> : k \in keys}

\* os.environ when the slots in S carry the values f.
EnvOf(S, f) ==
    [k \in {s[2] : s \in {t \in S : t[1] = "env"}} |-> f[<<"env", k>>]]

\* The typed lines when the slots in S carry the values f: one line per
\* field, empty (Enter) unless given.
LinesOf(S, f) ==
    [i \in 1..NumFields |->
        IF <<"in", FieldKey(i)>> \in S THEN f[<<"in", FieldKey(i)>>] ELSE <<>>]

\* wait_for_healthy(timeout: int = 90), as main calls it
HealthTimeout == 90

\* main: required_files
required_files == <<"Dockerfile", "docker-compose.yml", "package.json">>

\* The state common to every start: nothing collected or written yet.
Fresh ==
    /\ consumed = 0
    /\ generated = <<>>
    /\ config = <<>>
    /\ output = <<>>
    /\ exit_code = -1
    /\ env_file = <<>>
    /\ docker_list = ""
    /\ timeout = HealthTimeout
    /\ clock = 0
    /\ start_time = 0
    /\ last_probe = <<>>
    /\ healthy = "pending"

\* prompt_config and write_env_file on every field's inputs: main has passed
\* the preflight, found Docker and compose, and is about to collect the
\* configuration.  Nothing is typed in a non-interactive run.
ConfigInit ==
    /\ pc = "prompt_config"
    /\ non_interactive \in BOOLEAN
    /\ \E S \in KSubsets(EnvSlots(Keys) \cup
                         (IF non_interactive THEN {} ELSE InSlots(Keys)), MaxCustom) :
         \E f \in [S -> SampleValues] :
            /\ environ = EnvOf(S, f)
            /\ stdin = LinesOf(S, f)
    /\ Fresh
    /\ is_root = TRUE
    /\ is_debian = TRUE
    /\ project_files = {required_files[i] : i \in 1..Len(required_files)}
    /\ docker_found = "True"
    /\ compose_cmd = <<"docker", "compose">>
    /\ performed = << Did("is_docker_installed", "which docker", 0),
                      Did("get_compose_command", "docker compose version", 0) >>

ConfigNext == PromptConfig \/ WriteEnvFile

ConfigSpec == ConfigInit /\ [][ConfigNext]_vars

-----------------------------------------------------------------------------
\* The rest of main(): preflight, Docker installation, build and start,
\* health polling, summary.

\* Return codes of an external command: success and failure.
ReturnCodes == {0, 1}

\* sys.exit(1) after print_error(msg)
Die(msg) ==
    /\ output' = Append(output, <<"error", msg>>)
    /\ pc' = "exited"
    /\ exit_code' = 1

\* run_command(cmd) with check=True as one step of the script: the command
\* runs; a non-zero return code prints "Command failed" and exits with 1.
RunChecked(step, cmd, next) ==
    \E rc \in ReturnCodes :
        /\ performed' = Append(performed, Did(step, cmd, rc))
        /\ IF rc = 0
           THEN /\ pc' = next
                /\ UNCHANGED <<output, exit_code>>
           ELSE Die("Command failed")

\* check_root
CheckRoot ==
    /\ pc = "check_root"
    /\ IF is_root
       THEN /\ pc' = "check_debian"
            /\ UNCHANGED <<output, exit_code>>
       ELSE Die("This script must be run as root")
    /\ UNCHANGED <<non_interactive, environ, stdin, consumed, generated, config,
                   env_file, performed, docker_found, docker_list, compose_cmd,
                   is_root, is_debian, project_files, timeout, clock, start_time,
                   last_probe, healthy>>

\* check_debian
CheckDebian ==
    /\ pc = "check_debian"
    /\ output' = IF is_debian THEN output
                 ELSE Append(output, <<"warning", "designed for Debian">>)
    /\ pc' = "required_files"
    /\ UNCHANGED <<non_interactive, environ, stdin, consumed, generated, config,
                   exit_code, env_file, performed, docker_found, docker_list,
                   compose_cmd, is_root, is_debian, project_files, timeout, clock,
                   start_time, last_probe, healthy>>

\* main: the loop over required_files
CheckRequiredFiles ==
    /\ pc = "required_files"
    /\ IF \A i \in 1..Len(required_files) : required_files[i] \in project_files
       THEN /\ pc' = "is_docker_installed"
            /\ UNCHANGED <<output, exit_code>>
       ELSE /\ output' = output \o << <<"error", "Required file not found">>,
                                      <<"error", "Make sure you're running from the correct directory">> >>
            /\ pc' = "exited"
            /\ exit_code' = 1
    /\ UNCHANGED <<non_interactive, environ, stdin, consumed, generated, config,
                   env_file, performed, docker_found, docker_list, compose_cmd,
                   is_root, is_debian, project_files, timeout, clock, start_time,
                   last_probe, healthy>>

\* A variant of main's branch that installs Docker whatever the check said.
AfterDockerCheck_always_install(found) == "apt_update"

\* main: if is_docker_installed(): ... else: install_docker()
AfterDockerCheck(found) == IF found THEN "get_compose_command" ELSE "apt_update"

\* is_docker_installed, and main's branch on it
IsDockerInstalled ==
    /\ pc = "is_docker_installed"
    /\ \E rc \in ReturnCodes :
         /\ performed' = Append(performed, Did("is_docker_installed", "which docker", rc))
         /\ docker_found' = IF rc = 0 THEN "True" ELSE "False"
         /\ output' = IF rc = 0
                      THEN Append(output, <<"success", "Docker is already installed">>)
                      ELSE output
         /\ pc' = AfterDockerCheck(rc = 0)
    /\ UNCHANGED <<non_interactive, environ, stdin, consumed, generated, config,
                   exit_code, env_file, docker_list, compose_cmd, is_root,
                   is_debian, project_files, timeout, clock, start_time, last_probe,
                   healthy>>

InstallUnchanged ==
    UNCHANGED <<non_interactive, environ, stdin, consumed, generated, config,
                env_file, docker_found, docker_list, compose_cmd, is_root,
                is_debian, project_files, timeout, clock, start_time, last_probe, healthy>>

\* install_docker: apt-get update
AptUpdate ==
    /\ pc = "apt_update"
    /\ RunChecked("apt_update", "apt-get update", "apt_prereq")
    /\ InstallUnchanged

\* install_docker: apt-get install ca-certificates curl gnupg lsb-release
AptPrereq ==
    /\ pc = "apt_prereq"
    /\ RunChecked("apt_prereq", "apt-get install prerequisites", "gpg_key")
    /\ InstallUnchanged

\* install_docker: curl ... | gpg --dearmor, then chmod.  curl is started with
\* Popen and its return code (curl_proc.wait()) is discarded; gpg runs with
\* check=True outside run_command, so its failure is an uncaught
\* CalledProcessError: a traceback and exit status 1.
GpgKey ==
    /\ pc = "gpg_key"
    /\ \E curl_rc \in ReturnCodes, gpg_rc \in ReturnCodes :
         /\ performed' = performed \o
              << Did("gpg_key", "curl docker gpg", curl_rc),
                 Did("gpg_key", "gpg --dearmor", gpg_rc) >>
         /\ IF gpg_rc = 0
            THEN /\ pc' = "lsb_release"
                 /\ UNCHANGED <<output, exit_code>>
            ELSE Die("Traceback: CalledProcessError")
    /\ InstallUnchanged

\* install_docker: debian_codenames.get(codename, codename)
debian_codename(codename) ==
    IF codename \in {"trixie", "sid"} THEN "bookworm" ELSE codename

\* What lsb_release -cs may print.
Codenames == {"bookworm", "trixie"}

\* install_docker: lsb_release -cs, and the write of docker.list
LsbRelease ==
    /\ pc = "lsb_release"
    /\ \E rc \in ReturnCodes, codename \in Codenames :
         IF rc = 0
         THEN /\ performed' = performed \o
                   << Did("lsb_release", "lsb_release -cs", 0),
                      Did("lsb_release", "write docker.list", 0) >>
              /\ docker_list' = debian_codename(codename)
              /\ pc' = "apt_update2"
              /\ UNCHANGED <<output, exit_code>>
         ELSE /\ performed' = Append(performed, Did("lsb_release", "lsb_release -cs", rc))
              /\ docker_list' = docker_list
              /\ Die("Command failed")
    /\ UNCHANGED <<non_interactive, environ, stdin, consumed, generated, config,
                   env_file, docker_found, compose_cmd, is_root, is_debian,
                   project_files, timeout, clock, start_time, last_probe, healthy>>

\* install_docker: the second apt-get update
AptUpdate2 ==
    /\ pc = "apt_update2"
    /\ RunChecked("apt_update2", "apt-get update", "apt_install_docker")
    /\ InstallUnchanged

\* install_docker: apt-get install docker-ce ... docker-compose-plugin
AptInstallDocker ==
    /\ pc = "apt_install_docker"
    /\ RunChecked("apt_install_docker", "apt-get install docker", "systemctl_start")
    /\ InstallUnchanged

\* install_docker: systemctl start docker
SystemctlStart ==
    /\ pc = "systemctl_start"
    /\ RunChecked("systemctl_start", "systemctl start docker", "systemctl_enable")
    /\ InstallUnchanged

\* install_docker: systemctl enable docker
SystemctlEnable ==
    /\ pc = "systemctl_enable"
    /\ RunChecked("systemctl_enable", "systemctl enable docker", "get_compose_command")
    /\ InstallUnchanged

\* get_compose_command at step `step`: the commands it runs and what it
\* returns (<<>> for None), for the two return codes.
ComposeProbe(step, rc1, rc2) ==
    IF rc1 = 0
    THEN [did |-> << Did(step, "docker compose version", rc1) >>,
          cmd |-> <<"docker", "compose">>]
    ELSE [did |-> << Did(step, "docker compose version", rc1),
                     Did(step, "which docker-compose", rc2) >>,
          cmd |-> IF rc2 = 0 THEN <<"docker-compose">> ELSE <<>>]

\* main: if not get_compose_command(): exit
GetComposeCommand ==
    /\ pc = "get_compose_command"
    /\ \E rc1 \in ReturnCodes, rc2 \in ReturnCodes :
         LET r == ComposeProbe("get_compose_command", rc1, rc2)
         IN  /\ performed' = performed \o r.did
             /\ compose_cmd' = r.cmd
             /\ IF r.cmd # <<>>
                THEN /\ pc' = "prompt_config"
                     /\ UNCHANGED <<output, exit_code>>
                ELSE Die("Docker Compose not available")
    /\ UNCHANGED <<non_interactive, environ, stdin, consumed, generated, config,
                   env_file, docker_found, docker_list, is_root, is_debian,
                   project_files, timeout, clock, start_time, last_probe, healthy>>

\* build_and_start: os.chdir and get_compose_command
BuildAndStart ==
    /\ pc = "build_and_start"
    /\ \E rc1 \in ReturnCodes, rc2 \in ReturnCodes :
         LET r == ComposeProbe("build_and_start", rc1, rc2)
         IN  /\ performed' = performed \o r.did
             /\ compose_cmd' = r.cmd
             /\ IF r.cmd # <<>>
                THEN /\ pc' = "compose_build"
                     /\ UNCHANGED <<output, exit_code>>
                ELSE Die("Docker Compose not found")
    /\ UNCHANGED <<non_interactive, environ, stdin, consumed, generated, config,
                   env_file, docker_found, docker_list, is_root, is_debian,
                   project_files, timeout, clock, start_time, last_probe, healthy>>

\* build_and_start: compose build --no-cache
ComposeBuild ==
    /\ pc = "compose_build"
    /\ RunChecked("compose_build", "compose build --no-cache", "compose_up")
    /\ InstallUnchanged

\* build_and_start: compose up -d
ComposeUp ==
    /\ pc = "compose_up"
    /\ RunChecked("compose_up", "compose up -d", "wait_for_healthy")
    /\ InstallUnchanged

-----------------------------------------------------------------------------
\* wait_for_healthy

\* subprocess.run(..., timeout=5)
ProbeTimeout == 5

\* time.sleep(2)
SleepSecs == 2

\* What curl -w "%{http_code}" may print.
ProbeOutputs == { <<"2", "0", "0">>, <<"5", "0", "3">>, <<"0", "0", "0">> }

\* A variant of the loop condition that is off by one: <= for <.
StillWaiting_inclusive(now, start, limit) == now - start <= limit

\* time.time() - start_time < timeout
StillWaiting(now, start, limit) == now - start < limit

\* result.stdout.strip() == "200"
IsHealthy(stdout) == Strip(stdout) = <<"2", "0", "0">>

HealthUnchanged ==
    UNCHANGED <<non_interactive, environ, stdin, consumed, generated, config,
                output, exit_code, env_file, performed, docker_found,
                docker_list, compose_cmd, is_root, is_debian, project_files, timeout>>

\* start_time = time.time()
HealthStart ==
    /\ pc = "wait_for_healthy"
    /\ start_time' = clock
    /\ pc' = "health_loop"
    /\ UNCHANGED <<clock, last_probe, healthy>>
    /\ HealthUnchanged

\* The while condition; when it fails the function returns False.
HealthLoop ==
    /\ pc = "health_loop"
    /\ IF StillWaiting(clock, start_time, timeout)
       THEN /\ pc' = "health_probe"
            /\ healthy' = healthy
       ELSE /\ pc' = "health_done"
            /\ healthy' = "False"
    /\ UNCHANGED <<clock, start_time, last_probe>>
    /\ HealthUnchanged

\* One probe: curl prints a status within the timeout, or the 5 seconds pass
\* and TimeoutExpired is caught.  A status of 200 returns True.
HealthProbe ==
    /\ pc = "health_probe"
    /\ \/ \E took \in 0..(ProbeTimeout - 1), stdout \in ProbeOutputs :
            /\ clock' = clock + took
            /\ last_probe' = stdout
            /\ IF IsHealthy(stdout)
               THEN /\ pc' = "health_done"
                    /\ healthy' = "True"
               ELSE /\ pc' = "health_sleep"
                    /\ healthy' = healthy
       \/ /\ clock' = clock + ProbeTimeout
          /\ last_probe' = <<>>
          /\ pc' = "health_sleep"
          /\ healthy' = healthy
    /\ UNCHANGED start_time
    /\ HealthUnchanged

\* time.sleep(2)
HealthSleep ==
    /\ pc = "health_sleep"
    /\ clock' = clock + SleepSecs
    /\ pc' = "health_loop"
    /\ UNCHANGED <<start_time, last_probe, healthy>>
    /\ HealthUnchanged

\* main: if wait_for_healthy(): ... else: the two warnings
HealthReport ==
    /\ pc = "health_done"
    /\ output' = IF healthy = "True"
                 THEN Append(output, <<"success", "Application is running and healthy">>)
                 ELSE output \o << <<"warning", "Application may still be starting.">>,
                                   <<"warning", "Check logs with: docker compose logs -f">> >>
    /\ pc' = "print_summary"
    /\ UNCHANGED <<non_interactive, environ, stdin, consumed, generated, config,
                   exit_code, env_file, performed, docker_found, docker_list,
                   compose_cmd, is_root, is_debian, project_files, timeout, clock,
                   start_time, last_probe, healthy>>

\* print_summary: get_server_ip runs hostname -I through run_command with
\* check=True, so a failure ends in sys.exit(1); SystemExit is not an
\* Exception and passes the except clause.  Otherwise the summary is printed
\* and main returns.
PrintSummary ==
    /\ pc = "print_summary"
    /\ \E rc \in ReturnCodes :
         /\ performed' = Append(performed, Did("print_summary", "hostname -I", rc))
         /\ IF rc = 0
            THEN /\ output' = Append(output, <<"summary", "Deployed Successfully!">>)
                 /\ pc' = "exited"
                 /\ exit_code' = 0
            ELSE Die("Command failed")
    /\ UNCHANGED <<non_interactive, environ, stdin, consumed, generated, config,
                   env_file, docker_found, docker_list, compose_cmd, is_root,
                   is_debian, project_files, timeout, clock, start_time, last_probe,
                   healthy>>

-----------------------------------------------------------------------------
\* The whole script.

\* The values given to JWT_SECRET in runs of the whole script.
MainValues == { Rep("x", 10) }

Init ==
    /\ pc = "check_root"
    /\ non_interactive \in BOOLEAN
    /\ \E S \in KSubsets(EnvSlots({"JWT_SECRET"}) \cup
                         (IF non_interactive THEN {} ELSE InSlots({"JWT_SECRET"})),
                         MaxCustom) :
         \E f \in [S -> MainValues] :
            /\ environ = EnvOf(S, f)
            /\ stdin = LinesOf(S, f)
    /\ Fresh
    /\ performed = <<>>
    /\ docker_found = "pending"
    /\ compose_cmd = <<>>
    /\ is_root \in BOOLEAN
    /\ is_debian \in BOOLEAN
    /\ project_files \in
         { {required_files[i] : i \in 1..n} : n \in 0..Len(required_files) }

Next ==
    \/ CheckRoot
    \/ CheckDebian
    \/ CheckRequiredFiles
    \/ IsDockerInstalled
    \/ AptUpdate
    \/ AptPrereq
    \/ GpgKey
    \/ LsbRelease
    \/ AptUpdate2
    \/ AptInstallDocker
    \/ SystemctlStart
    \/ SystemctlEnable
    \/ GetComposeCommand
    \/ PromptConfig
    \/ WriteEnvFile
    \/ BuildAndStart
    \/ ComposeBuild
    \/ ComposeUp
    \/ HealthStart
    \/ HealthLoop
    \/ HealthProbe
    \/ HealthSleep
    \/ HealthReport
    \/ PrintSummary

Spec == Init /\ [][Next]_vars

\* wait_for_healthy alone, for several timeouts: a non-interactive run with
\* Docker present and nothing set in the environment has started the
\* containers and calls it.
HealthInit ==
    /\ pc = "wait_for_healthy"
    /\ non_interactive = TRUE
    /\ environ = <<>>
    /\ stdin = LinesOf({}, <<>>)
    /\ consumed = 0
    /\ \E rnd \in RandomBytes :
         LET r == prompt_config(TRUE, <<>>, stdin, rnd)
         IN  /\ generated = r.generated
             /\ config = r.config
             /\ output = << <<"success", "Docker is already installed">> >> \o r.out
                            \o << <<"success", "Configuration written">> >>
    /\ exit_code = -1
    /\ env_file = EnvLines(config)
    /\ docker_list = ""
    /\ performed = << Did("is_docker_installed", "which docker", 0),
                      Did("get_compose_command", "docker compose version", 0),
                      Did("write_env_file", "write .env", 0),
                      Did("build_and_start", "docker compose version", 0),
                      Did("compose_build", "compose build --no-cache", 0),
                      Did("compose_up", "compose up -d", 0) >>
    /\ docker_found = "True"
    /\ compose_cmd = <<"docker", "compose">>
    /\ is_root = TRUE
    /\ is_debian = TRUE
    /\ project_files = {required_files[i] : i \in 1..Len(required_files)}
    /\ timeout \in {0, 1, ProbeTimeout, HealthTimeout}
    /\ clock = 0
    /\ start_time = 0
    /\ last_probe = <<>>
    /\ healthy = "pending"

HealthNext == HealthStart \/ HealthLoop \/ HealthProbe \/ HealthSleep

\* The script is one thread: a step that can be taken is taken.
HealthSpec == HealthInit /\ [][HealthNext]_vars /\ WF_vars(HealthNext)

-----------------------------------------------------------------------------
\* Properties of prompt_config and write_env_file (checked under ConfigSpec).

\* prompt_config has returned a configuration.
ConfigReturned == pc \in {"write_env_file", "build_and_start"}

\* The position of the secret in CONFIG_FIELDS, and so of its input line.
JwtIndex == CHOOSE i \in 1..NumFields : FieldKey(i) = "JWT_SECRET"

StoredSecret == DictValue(config, "JWT_SECRET")

IsHexToken(v) == Len(v) = 64 /\ \A i \in 1..Len(v) : v[i] \in HexChars

NoEnvironment == DOMAIN environ = {}

\* C1 as stated: in non-interactive mode with every configuration variable
\* unset, every required field without a default ends the run with exit 1 and
\* an error naming it, and every non-required field gets its declared default.
C1_AsStated ==
    (non_interactive /\ NoEnvironment /\ pc # "prompt_config") =>
        /\ \A i \in 1..NumFields :
             (FieldRequired(i) /\ FieldDefault(i) = <<>>) =>
                 /\ pc = "exited"
                 /\ exit_code = 1
                 /\ \E j \in 1..Len(output) : output[j] = <<"error", FieldKey(i)>>
        /\ \A i \in 1..NumFields :
             (~FieldRequired(i) /\ pc # "exited") =>
                 /\ FieldKey(i) \in DictKeys(config)
                 /\ DictValue(config, FieldKey(i)) = FieldDefault(i)

\* C1 amended: in non-interactive mode with every configuration variable
\* unset, a required field without a default is fatal (exit 1, naming it) unless
\* it is JWT_SECRET, which gets the generated 64-character value instead; so
\* with the declared fields prompt_config returns, and every non-required
\* field holds exactly its declared default.
C1_Amended ==
    (non_interactive /\ NoEnvironment /\ pc # "prompt_config") =>
        /\ \A i \in 1..NumFields :
             (FieldRequired(i) /\ FieldDefault(i) = <<>> /\ FieldKey(i) # "JWT_SECRET") =>
                 /\ pc = "exited"
                 /\ exit_code = 1
                 /\ \E j \in 1..Len(output) : output[j] = <<"error", FieldKey(i)>>
        /\ ConfigReturned
        /\ exit_code = -1
        /\ StoredSecret = generated
        /\ IsHexToken(generated)
        /\ \A i \in 1..NumFields :
             ~FieldRequired(i) =>
                 /\ FieldKey(i) \in DictKeys(config)
                 /\ DictValue(config, FieldKey(i)) = FieldDefault(i)

C1_Witness ==
    /\ non_interactive
    /\ NoEnvironment
    /\ pc = "write_env_file"
    /\ Len(config) = NumFields

\* The secret was omitted: unset or empty in the environment (non-interactive
\* mode), or an empty line typed (interactive mode).
SecretOmitted ==
    IF non_interactive
    THEN Get(environ, "JWT_SECRET", <<>>) = <<>>
    ELSE stdin[JwtIndex] = <<>>

\* C2: whenever prompt_config returns, the configuration has every key of
\* CONFIG_FIELDS (once each), JWT_SECRET is non-empty, and when the secret was
\* omitted JWT_SECRET is the generated value of exactly 64 hexadecimal
\* characters.
C2_ConfigComplete ==
    ConfigReturned =>
        /\ DictKeys(config) = Keys
        /\ Len(config) = NumFields
        /\ StoredSecret # <<>>
        /\ SecretOmitted => (StoredSecret = generated /\ IsHexToken(StoredSecret))

C2_Witness ==
    /\ ConfigReturned
    /\ SecretOmitted
    /\ ~non_interactive
    /\ IsHexToken(StoredSecret)

Warned ==
    \E j \in 1..Len(output) : output[j][1] = "warning"

\* C3: in interactive mode a typed secret of trimmed length 1..31 is replaced
\* by the generated 64-character candidate, with a warning; one of trimmed
\* length 32 or more is stored as typed (trimmed).
C3_ShortSecretReplaced ==
    (~non_interactive /\ ConfigReturned) =>
        LET typed == Strip(stdin[JwtIndex])
        IN  /\ (Len(typed) >= 1 /\ Len(typed) <= 31) =>
                 /\ StoredSecret = generated
                 /\ IsHexToken(generated)
                 /\ StoredSecret # typed
                 /\ Warned
            /\ Len(typed) >= 32 =>
                 /\ StoredSecret = typed
                 /\ ~Warned

C3_Witness ==
    /\ ~non_interactive
    /\ ConfigReturned
    /\ Len(Strip(stdin[JwtIndex])) = 10
    /\ StoredSecret = generated
    /\ Warned

\* KEY="VALUE" and KEY=VALUE
QuotedLine(key, value) == <<key, "=", "\"">> \o value \o <<"\"">>
PlainLine(key, value) == <<key, "=">> \o value

\* C4 as stated: after the header the file has exactly one line per entry, in
\* mapping order, quoted if and only if the value contains a space or a
\* parenthesis (opening or closing).
C4_AsStated ==
    pc = "build_and_start" =>
        /\ Len(env_file) = Len(EnvHeader) + Len(config)
        /\ SubSeq(env_file, 1, Len(EnvHeader)) = EnvHeader
        /\ \A i \in 1..Len(config) :
             LET k == config[i].key
                 v == config[i].value
                 special == Contains(v, " ") \/ Contains(v, "(") \/ Contains(v, ")")
                 line == env_file[Len(EnvHeader) + i]
             IN  IF special THEN line = QuotedLine(k, v) ELSE line = PlainLine(k, v)

\* Other environments: none of the variables set, and every one of them set
\* to one value.
OtherEnvs == {<<>>} \cup {[k \in Keys |-> v] : v \in {<<>>, <<"e">>}}

\* C8: in interactive mode the non-secret fields do not depend on the
\* environment: the run's configuration agrees, on every non-secret key, with
\* the configuration the same typed lines give under any other environment.
C8_EnvIndependent ==
    (~non_interactive /\ ConfigReturned) =>
        \A env2 \in OtherEnvs :
            LET other == prompt_config(FALSE, env2, stdin, CHOOSE rnd \in RandomBytes : TRUE)
            IN  /\ ~other.exited
                /\ \A k \in Keys \ {"JWT_SECRET"} :
                     DictValue(other.config, k) = DictValue(config, k)

C8_Witness ==
    /\ ~non_interactive
    /\ ConfigReturned
    /\ DOMAIN environ # {}
    /\ \E k \in DOMAIN environ :
         /\ k # "JWT_SECRET"
         /\ environ[k] # DictValue(config, k)

\* C10 as stated: whenever the env file is written, the stored JWT_SECRET has
\* at least 32 characters.
C10_AsStated ==
    pc = "build_and_start" => Len(StoredSecret) >= 32

-----------------------------------------------------------------------------
\* Properties of the whole script (checked under Spec and HealthSpec).

Elapsed == clock - start_time

Printed(kind) == \E j \in 1..Len(output) : output[j][1] = kind

\* C6 as stated: whenever wait_for_healthy returned False (build and start
\* having succeeded), the run ends with the warning and the summary printed
\* and exit code 0.
C6_AsStated ==
    (pc = "exited" /\ healthy = "False") =>
        /\ \E j \in 1..Len(output) :
             output[j] = <<"warning", "Application may still be starting.">>
        /\ Printed("summary")
        /\ exit_code = 0

\* The steps of install_docker, and those of build_and_start that run compose.
InstallSteps == {"apt_update", "apt_prereq", "gpg_key", "lsb_release",
                 "apt_update2", "apt_install_docker", "systemctl_start",
                 "systemctl_enable"}
BuildSteps == {"compose_build", "compose_up"}

\* C7 as stated: when a command of the installation or of build/start fails,
\* the run ends there with a non-zero exit code: nothing of a later step is
\* ever performed.
C7_AsStated ==
    \A i \in 1..Len(performed) :
        (performed[i].step \in InstallSteps \cup BuildSteps /\ performed[i].rc # 0) =>
            /\ pc = "exited"
            /\ exit_code > 0
            /\ \A j \in (i + 1)..Len(performed) : performed[j].step = performed[i].step

\* C9: when the Docker binary is found, no installation action is ever
\* performed and the next thing run is the compose check; installation
\* actions happen only in runs where the binary was not found.
C9_InstallSkipped ==
    /\ \A i \in 1..Len(performed) :
         performed[i].step \in InstallSteps => docker_found = "False"
    /\ pc \in InstallSteps => docker_found = "False"
    /\ docker_found = "True" =>
         /\ performed[1] = Did("is_docker_installed", "which docker", 0)
         /\ docker_list = ""
         /\ pc # "is_docker_installed"
         /\ Len(performed) = 1 => pc = "get_compose_command"
         /\ Len(performed) >= 2 =>
              performed[2] \in { Did("get_compose_command", "docker compose version", rc) :
                                 rc \in ReturnCodes }

C9_Witness ==
    /\ docker_found = "True"
    /\ pc = "exited"
    /\ exit_code = 0
    /\ \A i \in 1..Len(performed) : performed[i].step \notin InstallSteps

====
